---- MODULE Spec2Model ----
(***************************************************************************)
(* State machine of etos_test_runner.lib.workspace.Workspace.              *)
(*                                                                         *)
(* Paths are sequences of path components (pathlib.Path parts).  The       *)
(* process-wide working directory and environment, the file system and     *)
(* the fields of one Workspace instance are the state.  The context        *)
(* managers are split where their generators suspend: everything up to     *)
(* the yield is one action, everything after it is another.                *)
(***************************************************************************)
EXTENDS Naturals, Sequences, FiniteSets

VARIABLES
    cwd,                  \* os.getcwd(): the process working directory
    environ,              \* os.environ: variable name -> path
    dirs,                 \* directories that exist on disk
    files,                \* regular files on disk: path -> contents
    workspace,            \* self.workspace (None until __enter__)
    compressed_workspace, \* self.compressed_workspace (None until compress)
    identifiers,          \* self.identifiers: identifier -> directory
    stack,                \* suspended test_directory/collect_logs generators
    entered,              \* the caller is inside "with workspace:"
    result,               \* outcome of the most recent operation
    trace,                \* side effects of the most recent operation, in order
    hist                  \* counters over the life of the instance

\* result: op, the handler that ran last; error, the exception it raised
\*   ("none": it returned; "body": the body of the scope raised); identifier and
\*   created, for test_directory; exc, whether the body of the scope raised.
\* trace: records [op, src, files] of the chdir, del, compress, on_create and
\*   LogArea calls the handler made, a raising call being the last one.
\* hist: calls made so far; archives written and archive uploads made;
\*   the working directory at the last __enter__; per identifier the number of
\*   on_create calls, whether a call came without a callback, and whether
\*   on_create raised.
vars == <<cwd, environ, dirs, files, workspace, compressed_workspace,
          identifiers, stack, entered, result, trace, hist>>

----------------------------------------------------------------------------
(* Bounds of the exploration *)

MaxCalls == 4     \* calls of __enter__, test_directory and compress
MaxDepth == 2     \* test_directory scopes open at the same time

Identifiers == {"a", "b"}
TmpNames == {"tmp1", "tmp2", "tmp3"}

----------------------------------------------------------------------------
(* pathlib *)

None == <<>>

top_dir == <<"top">>

joinpath(p, name) == Append(p, name)

IsRelativeTo(p, base) ==
    /\ Len(base) <= Len(p)
    /\ SubSeq(p, 1, Len(base)) = base

\* Path.relative_to: defined only when base is a prefix (ValueError otherwise)
relative_to(p, base) == SubSeq(p, Len(base) + 1, Len(p))

global_logs == joinpath(top_dir, "logs")

global_artifacts == joinpath(top_dir, "artifacts")

is_dir(p) == p \in dirs

\* Path.mkdir(exist_ok=True)
mkdir(ds, p) == ds \cup {p}

\* dict item assignment, and removal of a set of keys
Bind(f, k, v) == [x \in DOMAIN f \cup {k} |-> IF x = k THEN v ELSE f[x]]

Drop(f, ks) == [x \in DOMAIN f \ ks |-> f[x]]

----------------------------------------------------------------------------
(* Records of what an operation did *)

Step(op, src, fs) == [op |-> op, src |-> src, files |-> fs]

Outcome(op, error, id, created, exc) ==
    [op |-> op, error |-> error, identifier |-> id, created |-> created,
     exc |-> exc]

\* The calls of a handler that were made when its k-th call raised (0: none did)
Attempted(calls, k) == IF k = 0 THEN calls ELSE SubSeq(calls, 1, k)

ErrorOf(calls, k) == IF k = 0 THEN "none" ELSE calls[k].op

----------------------------------------------------------------------------
(* LogArea collaborator *)

\* LogArea.collect(path): descriptors of the files under path
collect(fs, path) == {f \in DOMAIN fs : IsRelativeTo(f, path)}

upload_logs(fs, path) == Step("upload_logs", path, collect(fs, path))

upload_artifacts(fs, path) == Step("upload_artifacts", path, collect(fs, path))

----------------------------------------------------------------------------
(* Workspace.__init__ *)

Init ==
    /\ cwd = top_dir
    /\ environ = [n \in {"GLOBAL_LOGS", "GLOBAL_ARTIFACTS"} |->
                    IF n = "GLOBAL_LOGS" THEN global_logs ELSE global_artifacts]
    /\ dirs = {top_dir}
    /\ files = [p \in {} |-> <<>>]
    /\ workspace = None
    /\ compressed_workspace = None
    /\ identifiers = [i \in {} |-> None]
    /\ stack = <<>>
    /\ entered = FALSE
    /\ result = Outcome("init", "none", "", FALSE, FALSE)
    /\ trace = <<>>
    /\ hist = [calls |-> 0, archives |-> 0,
               archive_uploads |-> 0, cwd_before_enter |-> None,
               on_create |-> [i \in Identifiers |-> 0], no_callback |-> {},
               on_create_raised |-> {}]

----------------------------------------------------------------------------
(* Workspace.__enter__ *)

\* Mutant of MkdirRaises: mkdir without exist_ok
MkdirRaises_NoExistOk(ds, fs, p) == p \in ds \/ p \in DOMAIN fs

\* Path.mkdir(exist_ok=True) raises FileExistsError only when the path exists
\* and is not a directory
MkdirRaises(ds, fs, p) == p \in DOMAIN fs

\* The directories after the three mkdir calls of __enter__, made in order up
\* to the first one that raises, and whether one raised
EnterDirs(ds, fs, ws) ==
    IF MkdirRaises(ds, fs, ws)
    THEN [dirs |-> ds, raised |-> TRUE]
    ELSE LET d1 == mkdir(ds, ws) IN
         IF MkdirRaises(d1, fs, global_logs)
         THEN [dirs |-> d1, raised |-> TRUE]
         ELSE LET d2 == mkdir(d1, global_logs) IN
              IF MkdirRaises(d2, fs, global_artifacts)
              THEN [dirs |-> d2, raised |-> TRUE]
              ELSE [dirs |-> mkdir(d2, global_artifacts), raised |-> FALSE]

\* "with workspace:" is entered outside any open test directory scope, and is
\* not nested in itself.
Enter ==
    /\ ~entered
    /\ stack = <<>>
    /\ hist.calls < MaxCalls
    /\ LET ws == joinpath(top_dir, "workspace")
           made == EnterDirs(dirs, files, ws)
       IN
        /\ workspace' = ws
        /\ dirs' = made.dirs
        /\ IF made.raised
           THEN /\ cwd' = cwd
                /\ trace' = <<>>
                /\ entered' = FALSE
                /\ result' = Outcome("enter", "FileExistsError", "", FALSE, FALSE)
           ELSE /\ cwd' = ws
                /\ trace' = <<Step("chdir", ws, {})>>
                /\ entered' = TRUE
                /\ result' = Outcome("enter", "none", "", FALSE, FALSE)
    /\ hist' = [hist EXCEPT !.calls = @ + 1, !.cwd_before_enter = cwd]
    /\ UNCHANGED <<environ, files, compressed_workspace, identifiers, stack>>

----------------------------------------------------------------------------
(* The precondition of test_directory and compress *)

\* Mutant of WorkspaceMissing: the check is left out
WorkspaceMissing_Unchecked == FALSE

\* self.workspace is None or not self.workspace.is_dir()
WorkspaceMissing == workspace = None \/ ~is_dir(workspace)

----------------------------------------------------------------------------
(* Workspace.compress *)

\* shutil.make_archive(base_name, format="gztar", root_dir=...) called with
\* working directory `at`: the absolute name of the file written
make_archive(at, base_name) ==
    LET abspath == at \o base_name
    IN  [abspath EXCEPT ![Len(abspath)] = @ \o ".tar.gz"]

\* The error compress() raises when called with working directory `at`
CompressError(at, makeFails) ==
    IF WorkspaceMissing
    THEN "FileNotFoundError"
    ELSE IF \/ ~IsRelativeTo(joinpath(top_dir, "workspace"), at)
            \/ ~IsRelativeTo(top_dir, at)
            \/ ~IsRelativeTo(workspace, at)
    THEN "ValueError"
    ELSE IF makeFails THEN "make_archive" ELSE "none"

\* compress() called with working directory `at`: the error raised, and
\* self.compressed_workspace and the files on disk when it returns
compress(at, makeFails) ==
    LET error == CompressError(at, makeFails)
        filename == make_archive(at, relative_to(joinpath(top_dir, "workspace"),
                                                 at))
    IN  IF error = "none"
        THEN [error |-> error,
              compressed_workspace |-> filename,
              files |-> Bind(files, filename, <<"gztar">>)]
        ELSE [error |-> error,
              compressed_workspace |-> compressed_workspace,
              files |-> files]

\* A call of compress() by the owner of the instance
Compress(makeFails) ==
    /\ hist.calls < MaxCalls
    /\ LET c == compress(cwd, makeFails) IN
        /\ compressed_workspace' = c.compressed_workspace
        /\ files' = c.files
        /\ result' = Outcome("compress", c.error, "", FALSE, FALSE)
        /\ hist' = [hist EXCEPT !.calls = @ + 1,
                                !.archives = IF c.error = "none" THEN @ + 1 ELSE @]
    /\ trace' = <<Step("compress", cwd, {})>>
    /\ UNCHANGED <<cwd, environ, dirs, workspace, identifiers, stack, entered>>

----------------------------------------------------------------------------
(* Workspace.__exit__ *)

\* Mutant of ExitDir: __exit__ stays in the workspace
ExitDir_Workspace == workspace

\* The directory __exit__ returns to
ExitDir == top_dir

\* Mutant of ExitUploads: the archive is uploaded before the global directories
ExitUploads_ArchiveFirst(fs, archive) ==
    << Step("upload_artifacts", archive, {archive}),
       upload_logs(fs, global_logs),
       upload_artifacts(fs, global_artifacts) >>

\* The LogArea calls of __exit__ after compress(), in the order made
ExitUploads(fs, archive) ==
    << upload_logs(fs, global_logs),
       upload_artifacts(fs, global_artifacts),
       Step("upload_artifacts", archive, {archive}) >>

\* exc: the body of the scope raised; makeFails: make_archive raises;
\* k: which of the LogArea calls raises (0: none).  The with statements of the
\* caller close the test directory scopes before the workspace scope.
Exit(exc, makeFails, k) ==
    /\ entered
    /\ stack = <<>>
    /\ LET c == compress(ExitDir, makeFails)
           calls == ExitUploads(c.files, c.compressed_workspace)
           made == IF c.error = "none" THEN Attempted(calls, k) ELSE <<>>
       IN
        /\ cwd' = ExitDir
        /\ compressed_workspace' = c.compressed_workspace
        /\ files' = c.files
        /\ trace' = <<Step("chdir", ExitDir, {}), Step("compress", ExitDir, {})>>
                    \o made
        /\ result' = Outcome("exit",
                             IF c.error = "none" THEN ErrorOf(calls, k) ELSE c.error,
                             "", FALSE, exc)
        /\ hist' = [hist EXCEPT
                      !.archives = IF c.error = "none" THEN @ + 1 ELSE @,
                      !.archive_uploads = IF Len(made) = Len(calls) THEN @ + 1 ELSE @]
    /\ entered' = FALSE
    /\ UNCHANGED <<environ, dirs, workspace, identifiers, stack>>

----------------------------------------------------------------------------
(* Workspace.test_directory and Workspace.collect_logs, up to the yield *)

\* Mutant of NotBound: the cache is not consulted
NotBound_Always(id) == TRUE

\* self.identifiers.get(identifier) is None
NotBound(id) == id \notin DOMAIN identifiers

\* Mutant of CallsOnCreate: the callback runs on every call that gives one
CallsOnCreate_EveryCall(created, on_create) == on_create

\* on_create runs in the branch that created the directory, when one was given
CallsOnCreate(created, on_create) == created /\ on_create

\* Mutant of FinallyDir: the finally clause returns to top_dir
FinallyDir_TopDir == top_dir

\* The directory the finally clause of test_directory returns to
FinallyDir == workspace

\* Mutant of mkdtemp: the name is not unique
mkdtemp_SameName(parent) == {joinpath(parent, "tmp1")}

\* mkdtemp(dir=self.workspace): a directory that did not exist before.  The
\* name is opaque to the Workspace, so one fresh name stands for all of them.
mkdtemp(parent) ==
    LET fresh == {joinpath(parent, n) : n \in TmpNames} \ dirs
    IN  IF fresh = {} THEN {} ELSE {CHOOSE d \in fresh : TRUE}

\* Mutant of SetTestEnviron: LOG_PATH is not set
SetTestEnviron_NoLogPath(env, log_path, artifact_path) ==
    Bind(Bind(env, "TEST_ARTIFACT_PATH", artifact_path),
         "ARTIFACT_PATH", artifact_path)

\* The variables collect_logs sets before it yields
SetTestEnviron(env, log_path, artifact_path) ==
    Bind(Bind(Bind(env, "TEST_ARTIFACT_PATH", artifact_path),
              "ARTIFACT_PATH", artifact_path),
         "LOG_PATH", log_path)

\* Mutant of OpenEnviron: collect_logs is entered before on_create is called
OpenEnviron_BeforeOnCreate(env, failed, log_path, artifact_path) ==
    SetTestEnviron(env, log_path, artifact_path)

\* The environment when test_directory yields or raises: collect_logs is
\* entered after on_create returned, and not at all when it raised
OpenEnviron(env, failed, log_path, artifact_path) ==
    IF failed THEN env ELSE SetTestEnviron(env, log_path, artifact_path)

\* on_create: the caller gave a callback; raises: the callback raises
Open(id, on_create, raises) ==
    /\ hist.calls < MaxCalls
    /\ Len(stack) < MaxDepth
    /\ IF WorkspaceMissing
       THEN /\ result' = Outcome("open", "FileNotFoundError", id, FALSE, FALSE)
            /\ trace' = <<>>
            /\ hist' = [hist EXCEPT !.calls = @ + 1]
            /\ UNCHANGED <<cwd, environ, dirs, identifiers, stack>>
       ELSE \E directory \in IF NotBound(id) THEN mkdtemp(workspace)
                             ELSE {identifiers[id]} :
            LET created == NotBound(id)
                called == CallsOnCreate(created, on_create)
                failed == called /\ raises
                bound == IF created THEN Bind(identifiers, id, directory)
                         ELSE identifiers
                log_path == joinpath(bound[id], "logs")
                artifact_path == joinpath(bound[id], "artifacts")
            IN
            /\ identifiers' = bound
            /\ dirs' = IF failed THEN mkdir(dirs, directory)
                       ELSE mkdir(mkdir(mkdir(dirs, directory), log_path),
                                  artifact_path)
            /\ cwd' = IF failed THEN FinallyDir ELSE bound[id]
            /\ environ' = OpenEnviron(environ, failed, log_path, artifact_path)
            /\ stack' = IF failed THEN stack
                        ELSE Append(stack, [identifier |-> id,
                                            log_path |-> log_path,
                                            artifact_path |-> artifact_path])
            /\ trace' = (IF created THEN <<Step("mkdtemp", directory, {})>>
                         ELSE <<>>)
                        \o <<Step("chdir", bound[id], {})>>
                        \o (IF called THEN <<Step("on_create", bound[id], {})>>
                            ELSE <<>>)
                        \o (IF failed THEN <<Step("chdir", FinallyDir, {})>>
                            ELSE <<>>)
            /\ result' = Outcome("open", IF failed THEN "on_create" ELSE "none",
                                 id, created, FALSE)
            /\ hist' = [hist EXCEPT
                          !.calls = @ + 1,
                          !.on_create[id] = IF called THEN @ + 1 ELSE @,
                          !.no_callback = IF on_create THEN @ ELSE @ \cup {id},
                          !.on_create_raised = IF failed THEN @ \cup {id} ELSE @]
    /\ UNCHANGED <<files, workspace, compressed_workspace, entered>>

----------------------------------------------------------------------------
(* The body of an open test directory scope *)

\* The test process writes its report where LOG_PATH points; the report of a
\* visit holds the identifier the visit was opened with
BodyWriteReport ==
    /\ stack # <<>>
    /\ "LOG_PATH" \in DOMAIN environ
    /\ files' = Bind(files, joinpath(environ["LOG_PATH"], "test_output.log"),
                     <<stack[Len(stack)].identifier>>)
    /\ UNCHANGED <<cwd, environ, dirs, workspace, compressed_workspace,
                   identifiers, stack, entered, result, trace, hist>>

----------------------------------------------------------------------------
(* Workspace.collect_logs and Workspace.test_directory, after the yield *)

\* Mutant of DelOrder: the last del removes GLOBAL_LOGS
DelOrder_WithGlobal == <<"TEST_ARTIFACT_PATH", "ARTIFACT_PATH", "GLOBAL_LOGS">>

\* The del statements of collect_logs, in the order executed
DelOrder == <<"TEST_ARTIFACT_PATH", "ARTIFACT_PATH", "LOG_PATH">>

\* How many of the del statements succeed: the first missing key raises KeyError
DelCount(env) ==
    IF DelOrder[1] \notin DOMAIN env THEN 0
    ELSE IF DelOrder[2] \notin DOMAIN env THEN 1
    ELSE IF DelOrder[3] \notin DOMAIN env THEN 2
    ELSE 3

\* Workspace.add_to_full_log(report): the files afterwards
add_to_full_log(fs, report) ==
    IF report \in DOMAIN fs
    THEN LET full_execution == joinpath(global_logs, "full_execution.log")
             touched == IF full_execution \in DOMAIN fs THEN fs[full_execution]
                        ELSE <<>>
         IN  Bind(fs, full_execution, touched \o fs[report])
    ELSE fs

\* The LogArea calls of collect_logs after the yield, in the order made
CloseUploads(fs, log_path, artifact_path) ==
    << upload_logs(fs, log_path), upload_artifacts(fs, artifact_path) >>

\* exc: the body raised; k: which of the LogArea calls raises (0: none).
\* Scopes close innermost first.  An exception thrown into the generators at their yield skips the code after
\* the yield of collect_logs and runs the finally clause of test_directory.
Close(exc, k) ==
    /\ stack # <<>>
    /\ LET f == stack[Len(stack)]
           n == DelCount(environ)
           keyError == ~exc /\ n < Len(DelOrder)
           ran == ~exc /\ ~keyError
           report == joinpath(f.log_path, "test_output.log")
           fs == IF ran THEN add_to_full_log(files, report) ELSE files
           calls == CloseUploads(fs, f.log_path, f.artifact_path)
           dels == [i \in 1..(IF keyError THEN n + 1 ELSE n) |->
                      Step("del", <<DelOrder[i]>>, {})]
       IN
        /\ environ' = IF exc THEN environ
                      ELSE Drop(environ, {DelOrder[i] : i \in 1..n})
        /\ files' = fs
        /\ cwd' = FinallyDir
        /\ stack' = SubSeq(stack, 1, Len(stack) - 1)
        /\ trace' = (IF exc THEN <<>> ELSE dels)
                    \o (IF ran
                        THEN <<Step("add_to_full_log", report, {})>>
                             \o Attempted(calls, k)
                        ELSE <<>>)
                    \o <<Step("chdir", FinallyDir, {})>>
        /\ result' = Outcome("close",
                             IF exc THEN "body"
                             ELSE IF keyError THEN "KeyError"
                             ELSE ErrorOf(calls, k),
                             f.identifier, FALSE, exc)
    /\ UNCHANGED <<dirs, workspace, compressed_workspace, identifiers, entered,
                   hist>>

----------------------------------------------------------------------------

Next ==
    \/ Enter
    \/ \E exc \in BOOLEAN, makeFails \in BOOLEAN, k \in 0..3 :
          Exit(exc, makeFails, k)
    \/ \E makeFails \in BOOLEAN : Compress(makeFails)
    \/ \E id \in Identifiers, on_create \in BOOLEAN, raises \in BOOLEAN :
          Open(id, on_create, raises)
    \/ BodyWriteReport
    \/ \E exc \in BOOLEAN, k \in 0..2 : Close(exc, k)

Spec == Init /\ [][Next]_vars

----------------------------------------------------------------------------
(* Helpers of the properties *)

PerTestVars == {"LOG_PATH", "ARTIFACT_PATH", "TEST_ARTIFACT_PATH"}

\* What a step did and to what, without the descriptors it carried
Proj(steps) == [i \in 1..Len(steps) |-> <<steps[i].op, steps[i].src>>]

IsPrefix(s, t) == Len(s) <= Len(t) /\ SubSeq(t, 1, Len(s)) = s

Count(steps, op) == Cardinality({i \in 1..Len(steps) : steps[i].op = op})

----------------------------------------------------------------------------
(* C1 *)

\* The directory a suspended scope was opened on is the one its identifier is
\* bound to
FramesBound ==
    \A i \in 1..Len(stack) :
        /\ stack[i].identifier \in DOMAIN identifiers
        /\ stack[i].log_path = joinpath(identifiers[stack[i].identifier], "logs")

BindingKept ==
    \A id \in DOMAIN identifiers :
        id \in DOMAIN identifiers' /\ identifiers'[id] = identifiers[id]

\* C1: once identifiers[id] is set, no operation changes or removes it, and
\* every scope opened for id is opened on the directory id is bound to.
C1_BindingNeverChanges == []FramesBound /\ [][BindingKept]_vars

\* An identifier whose on_create raised at creation is opened again, after
\* another identifier was bound, and the scope is on the directory bound first
C1_Witness ==
    /\ result.op = "open" /\ result.error = "none" /\ ~result.created
    /\ result.identifier \in hist.on_create_raised
    /\ DOMAIN identifiers = Identifiers
    /\ cwd = identifiers[result.identifier]

----------------------------------------------------------------------------
(* C2 *)

\* C2: on_create runs at most once per identifier, never for an identifier that
\* is not bound, and exactly once for a bound identifier whose every
\* test_directory call supplied the callback.
C2_OnCreateOnce ==
    \A id \in Identifiers :
        /\ hist.on_create[id] <= 1
        /\ id \notin DOMAIN identifiers => hist.on_create[id] = 0
        /\ (id \in DOMAIN identifiers /\ id \notin hist.no_callback)
              => hist.on_create[id] = 1

\* A call with a callback finds the identifier bound, its on_create having
\* raised on the creating call, and does not run the callback again
C2_Witness ==
    /\ result.op = "open" /\ result.error = "none" /\ ~result.created
    /\ result.identifier \in hist.on_create_raised
    /\ result.identifier \notin hist.no_callback
    /\ hist.on_create[result.identifier] = 1
    /\ \A i \in 1..Len(trace) : trace[i].op # "on_create"

----------------------------------------------------------------------------
(* C3 *)

\* C3: the three per-test variables are set while a test directory scope is
\* open and are unset once the scope has closed, however the body ended.
C3_EnvScoped ==
    /\ stack # <<>> => PerTestVars \subseteq DOMAIN environ
    /\ (stack = <<>> /\ result.op = "close") => PerTestVars \cap DOMAIN environ = {}

----------------------------------------------------------------------------
(* C4 *)

\* C4: when a test_directory call that passed the workspace check hands control
\* back (its scope closed, or on_create raised), the working directory is
\* self.workspace, whatever raised.
C4_BackInWorkspace ==
    (\/ result.op = "close"
     \/ (result.op = "open" /\ result.error = "on_create"))
       => cwd = workspace

\* A scope whose upload_logs call raised at close is back in the workspace
C4_Witness ==
    /\ result.op = "close" /\ result.error = "upload_logs"
    /\ cwd = workspace

----------------------------------------------------------------------------
(* C5 *)

\* C5 as stated: after __exit__ the working directory is the one that was
\* active when __enter__ was called.
C5_RestoresDirBeforeEnter ==
    result.op = "exit" => cwd = hist.cwd_before_enter

\* C5 amended: after __exit__ the working directory is top_dir, the directory
\* that was active when the Workspace was constructed, whether or not the body
\* or a later step of __exit__ raised.
C5_RestoresTopDir ==
    result.op = "exit" => cwd = top_dir

\* __exit__ after a body that raised, entered from another directory than top_dir
C5_Witness ==
    /\ result.op = "exit" /\ result.exc
    /\ hist.cwd_before_enter # top_dir
    /\ cwd = top_dir

----------------------------------------------------------------------------
(* C6 *)

\* C6: when one of the three uploads of __exit__ fails, the other two are still
\* attempted in that __exit__.
C6_UploadsIndependent ==
    (result.op = "exit" /\ result.error \in {"upload_logs", "upload_artifacts"})
       => Count(trace, "upload_logs") = 1 /\ Count(trace, "upload_artifacts") = 2

----------------------------------------------------------------------------
(* C7 *)

\* C7: when compress() fails in __exit__, upload_logs and upload_artifacts are
\* still called for the global directories in that __exit__.
C7_UploadsAfterFailedCompress ==
    (result.op = "exit"
     /\ result.error \in {"make_archive", "FileNotFoundError", "ValueError"})
       => /\ <<"upload_logs", global_logs>> \in {Proj(trace)[i] : i \in 1..Len(trace)}
          /\ <<"upload_artifacts", global_artifacts>> \in
                {Proj(trace)[i] : i \in 1..Len(trace)}

----------------------------------------------------------------------------
(* C8 *)

\* The teardown of a visit to directory d, in the order the claim gives
VisitTeardown(d) ==
    << <<"del", <<"TEST_ARTIFACT_PATH">> >>,
       <<"del", <<"ARTIFACT_PATH">> >>,
       <<"del", <<"LOG_PATH">> >>,
       <<"add_to_full_log", joinpath(joinpath(d, "logs"), "test_output.log")>>,
       <<"upload_logs", joinpath(d, "logs")>>,
       <<"upload_artifacts", joinpath(d, "artifacts")>> >>

\* C8: every close of a test directory scope, also one whose body raised,
\* removes the variables, appends the report, and calls upload_logs and
\* upload_artifacts once each for the directory, in this order.
C8_TeardownOnEveryClose ==
    result.op = "close"
       => IsPrefix(VisitTeardown(identifiers[result.identifier]), Proj(trace))

----------------------------------------------------------------------------
(* C9 *)

\* The steps of __exit__, in the order the claim gives
ExitOrder ==
    << <<"chdir", top_dir>>,
       <<"compress", top_dir>>,
       <<"upload_logs", global_logs>>,
       <<"upload_artifacts", global_artifacts>>,
       <<"upload_artifacts", compressed_workspace>> >>

\* C9: __exit__ does its steps in the order chdir(top_dir), compress,
\* upload_logs(global_logs), upload_artifacts(global_artifacts),
\* upload_artifacts(archive), whether or not the body raised: what it did is
\* always a beginning of that list, starting with the chdir and the compress,
\* and the whole list when no step raised; that is one upload_logs call and two
\* upload_artifacts calls, the last one carrying the archive alone.
C9_ExitOrder ==
    result.op = "exit"
       => /\ IsPrefix(Proj(trace), ExitOrder)
          /\ Len(trace) >= 2
          /\ result.error = "none"
                => /\ Proj(trace) = ExitOrder
                   /\ Count(trace, "upload_logs") = 1
                   /\ Count(trace, "upload_artifacts") = 2
                   /\ trace[Len(trace)].files = {compressed_workspace}

\* __exit__ ran to its end after a body that raised, no test directory having
\* been opened
C9_Witness ==
    /\ result.op = "exit" /\ result.error = "none" /\ result.exc
    /\ DOMAIN identifiers = {}
    /\ Len(trace) = 5

----------------------------------------------------------------------------
(* C10 *)

\* C10: over the life of one instance at most one archive is produced and the
\* archive is uploaded at most once.
C10_CompressOnce ==
    hist.archives <= 1 /\ hist.archive_uploads <= 1

----------------------------------------------------------------------------
(* C11 *)

\* C11: at most one test directory scope is open at a time, and a close never
\* takes the per-test variables or the working directory away from a scope that
\* is still open.
C11_OneScopeAtATime ==
    /\ Len(stack) <= 1
    /\ (result.op = "close" /\ stack # <<>>)
          => /\ PerTestVars \subseteq DOMAIN environ
             /\ cwd = identifiers[stack[Len(stack)].identifier]

----------------------------------------------------------------------------
(* C12 *)

\* A step that is a call of test_directory
OpenCall == result'.op = "open" /\ hist'.calls = hist.calls + 1

\* C12: a test_directory call made while the workspace is missing raises
\* FileNotFoundError, and such a call changes nothing: no directory, no
\* binding, no variable, no open scope, the working directory as it was, no
\* on_create call and no LogArea call.
C12_MissingWorkspace ==
    [][OpenCall =>
         /\ (workspace = None \/ workspace \notin dirs)
               <=> result'.error = "FileNotFoundError"
         /\ result'.error = "FileNotFoundError"
               => /\ UNCHANGED <<cwd, environ, dirs, files, workspace,
                                 compressed_workspace, identifiers, stack>>
                  /\ hist'.on_create = hist.on_create
                  /\ trace' = <<>>]_vars

\* test_directory called before __enter__
C12_Witness ==
    /\ result.op = "open" /\ result.error = "FileNotFoundError"
    /\ workspace = None
    /\ dirs = {top_dir} /\ DOMAIN identifiers = {} /\ cwd = top_dir

----------------------------------------------------------------------------
(* C13 *)

\* C13: when on_create raises, which happens only on the call that creates the
\* directory, the error reaches the caller with the working directory
\* self.workspace, no scope opened and the environment as it was before the
\* call: the call set none of the per-test variables.
C13_OnCreateRaises ==
    [][(OpenCall /\ result'.error = "on_create")
         => /\ result'.created
            /\ cwd' = workspace
            /\ environ' = environ
            /\ stack' = stack]_vars

\* on_create raised on the first open of an identifier: back in the workspace
\* with none of the per-test variables set
C13_Witness ==
    /\ result.op = "open" /\ result.error = "on_create" /\ result.created
    /\ result.identifier \in DOMAIN identifiers
    /\ cwd = workspace
    /\ PerTestVars \cap DOMAIN environ = {}

----------------------------------------------------------------------------
(* C14 *)

\* A step that closes the innermost test directory scope
CloseCall == result'.op = "close" /\ Len(stack') + 1 = Len(stack)

full_execution_log == joinpath(global_logs, "full_execution.log")

\* What the close of the innermost scope leaves on disk when it appends the
\* report of the visit to the cumulative log
ReportAppended ==
    LET report == joinpath(stack[Len(stack)].log_path, "test_output.log")
        before == IF full_execution_log \in DOMAIN files
                  THEN files[full_execution_log] ELSE <<>>
    IN  IF report \in DOMAIN files
        THEN /\ full_execution_log \in DOMAIN files'
             /\ files'[full_execution_log] = before \o files[report]
        ELSE files' = files

\* C14: every close of a test directory scope appends the whole test_output.log
\* of its logs directory, when there is one, to the end of full_execution.log,
\* and leaves the files alone when there is none.
C14_ReportAppendedOnClose == [][CloseCall => ReportAppended]_vars

----------------------------------------------------------------------------
(* C15 *)

\* A step in which test_directory yields to the body
OpenYields == OpenCall /\ result'.error = "none"

\* C15: every visit starts on freshly created logs/ and artifacts/
\* directories: when a scope opens, no other scope being open, neither
\* directory existed before and neither holds a file of an earlier visit.
C15_FreshCollection ==
    [][(OpenYields /\ stack = <<>>) =>
         LET f == stack'[Len(stack')] IN
         /\ f.log_path \notin dirs
         /\ f.artifact_path \notin dirs
         /\ collect(files', f.log_path) = {}
         /\ collect(files', f.artifact_path) = {}]_vars

----------------------------------------------------------------------------
(* C16 *)

\* The directories created inside the workspace directory
TestDirectories ==
    {d \in dirs : Len(d) = 3 /\ IsRelativeTo(d, joinpath(top_dir, "workspace"))}

\* The identifiers test_directory was called with, the workspace existing
Opened ==
    {id \in Identifiers : id \in hist.no_callback \/ hist.on_create[id] > 0}

\* C16: as many directories were created as distinct identifiers were opened,
\* each opened identifier is bound to one of them, and no two identifiers are
\* bound to the same directory.
C16_OneDirectoryPerIdentifier ==
    /\ Cardinality(TestDirectories) = Cardinality(Opened)
    /\ DOMAIN identifiers = Opened
    /\ {identifiers[id] : id \in DOMAIN identifiers} = TestDirectories
    /\ \A i, j \in DOMAIN identifiers :
          i # j => identifiers[i] # identifiers[j]

\* "a", "b", "a": the third call reuses the first of the two directories
C16_Witness ==
    /\ result.op = "open" /\ result.error = "none" /\ ~result.created
    /\ Opened = Identifiers
    /\ Cardinality(TestDirectories) = 2
    /\ cwd = identifiers[result.identifier]
    /\ stack = <<[identifier |-> result.identifier,
                  log_path |-> joinpath(cwd, "logs"),
                  artifact_path |-> joinpath(cwd, "artifacts")]>>

----------------------------------------------------------------------------
(* C17 *)

\* A full run with collaborators that do not fail: __enter__ first, then
\* test directories opened one after the other with an on_create that returns,
\* bodies that return, and __exit__ at the end.
RunNext ==
    \/ hist.calls = 0 /\ Enter
    \/ \E id \in Identifiers :
          entered /\ stack = <<>> /\ Open(id, TRUE, FALSE)
    \/ BodyWriteReport
    \/ Close(FALSE, 0)
    \/ Exit(FALSE, FALSE, 0)

\* The run is one thread of straight-line calls: each call returns and the
\* next statement of the caller runs.
RunSpec == Init /\ [][RunNext]_vars /\ WF_vars(RunNext)

\* __exit__ returned, every scope closed, all its uploads made
RunDone ==
    /\ result.op = "exit" /\ result.error = "none"
    /\ ~entered /\ stack = <<>>
    /\ Proj(trace) = ExitOrder

\* No call raised, and every close made the uploads of its directory
RunClean ==
    /\ result.error = "none"
    /\ result.op = "close"
          => IsPrefix(VisitTeardown(identifiers[result.identifier]), Proj(trace))

\* C17: a full run with non-failing collaborators ends: __exit__ returns with
\* every scope closed and every teardown upload made, and no call raised on
\* the way.
C17_RunTerminates == <>RunDone /\ []RunClean

\* The run ended after both identifiers were visited and a report was logged
C17_Witness ==
    /\ RunDone
    /\ Opened = Identifiers
    /\ full_execution_log \in DOMAIN files

----------------------------------------------------------------------------
(* C18 *)

\* A call of __enter__
EnterCall == result'.op = "enter" /\ hist'.calls = hist.calls + 1

\* C18: __enter__ never raises, whether or not its three directories exist
\* already; it removes no directory, leaves the identifier bindings as they
\* were, and ends with the three directories existing and the working
\* directory equal to the workspace.
C18_EnterIdempotent ==
    [][EnterCall =>
         /\ result'.error = "none"
         /\ identifiers' = identifiers
         /\ dirs \subseteq dirs'
         /\ {workspace', global_logs, global_artifacts} \subseteq dirs'
         /\ workspace' = joinpath(top_dir, "workspace")
         /\ cwd' = workspace']_vars

\* __enter__ returned a second time, with its directories and a binding
\* already there from the first run
C18_Witness ==
    /\ result.op = "enter" /\ result.error = "none"
    /\ hist.calls > 2
    /\ DOMAIN identifiers # {}
    /\ hist.archives > 0
    /\ cwd = workspace
    /\ {workspace, global_logs, global_artifacts} \subseteq dirs

----------------------------------------------------------------------------
(* C19 *)

\* C19: GLOBAL_LOGS and GLOBAL_ARTIFACTS keep the values set at construction,
\* top_dir/logs and top_dir/artifacts, through every operation and on every
\* error path.
C19_GlobalEnvironKept ==
    /\ {"GLOBAL_LOGS", "GLOBAL_ARTIFACTS"} \subseteq DOMAIN environ
    /\ environ["GLOBAL_LOGS"] = joinpath(top_dir, "logs")
    /\ environ["GLOBAL_ARTIFACTS"] = joinpath(top_dir, "artifacts")

\* A scope was closed normally, its three variables deleted, and the two
\* global ones are all that is left
C19_Witness ==
    /\ result.op = "close" /\ result.error = "none"
    /\ DOMAIN environ = {"GLOBAL_LOGS", "GLOBAL_ARTIFACTS"}
    /\ environ["GLOBAL_LOGS"] = global_logs
    /\ environ["GLOBAL_ARTIFACTS"] = global_artifacts

----------------------------------------------------------------------------
(* C20 *)

\* C20: while a test directory scope is open, LOG_PATH is the logs/ and
\* ARTIFACT_PATH and TEST_ARTIFACT_PATH are the artifacts/ sub-directory of the
\* directory bound to the scope's identifier, and when the scope has just
\* been opened the working directory is that bound directory.
C20_EnvironInsideScope ==
    stack # <<>> =>
        LET f == stack[Len(stack)]
            d == identifiers[f.identifier]
        IN  /\ PerTestVars \subseteq DOMAIN environ
            /\ environ["LOG_PATH"] = joinpath(d, "logs")
            /\ environ["ARTIFACT_PATH"] = joinpath(d, "artifacts")
            /\ environ["TEST_ARTIFACT_PATH"] = joinpath(d, "artifacts")
            /\ (result.op = "open" /\ result.error = "none") => cwd = d

====
